---- MODULE Spec2Model ----
(***************************************************************************)
(* Authentication and session management of ChronoChat                     *)
(* (Backend/app/services/auth.py and the routes that call it).             *)
(*                                                                         *)
(* The durable store holds user rows and session rows, the cache holds     *)
(* one entry per session token.  Every request is a coroutine: it runs    *)
(* from one await on the store or the cache to the next, so each action    *)
(* below is the code between two awaits together with the statement that   *)
(* is awaited.  Spec runs one request at a time, SpecConc interleaves the  *)
(* steps of NumProcs requests.                                             *)
(***************************************************************************)
EXTENDS Integers, Sequences, FiniteSets, TLC

VARIABLES users, sessions, cache, clock, nticks, pc, loc, resp, nreq

vars == <<users, sessions, cache, clock, nticks, pc, loc, resp, nreq>>

(***************************************************************************)
(* Bounds of the model.                                                    *)
(***************************************************************************)
\* Settings.MAX_SESSIONS_PER_USER is read from the environment (default 5);
\* the model is checked with the cap SessionCap.
SessionCap == 2
\* session rows the store may hold in Spec, and in SpecConc
MaxRows == 3
MaxRowsConc == 4
\* session rows the store may hold in SpecRace
MaxRowsRace == 6
\* requests each client sends in SpecConc
MaxReqs == 1
\* number of times the clock advances
MaxTicks == 1
\* requests in flight at once in SpecConc
NumProcs == 3
\* user rows the store may hold
MaxUsers == 2
\* session rows the store may hold in SpecFault
MaxRowsFault == 4
\* session rows the store may hold in SpecAcct
MaxRowsAcct == 3
\* session rows the store may hold in SpecReg
MaxRowsReg == 3
\* session rows the store may hold in SpecRegRace
MaxRowsRegRace == 2
\* session rows the store may hold in SpecIso
MaxRowsIso == 4
\* session rows the store may hold in SpecPwd
MaxRowsPwd == 3
\* session rows the store may hold in SpecDel
MaxRowsDel == 3

(***************************************************************************)
(* Settings (Backend/app/core/config.py).  Time is counted in seconds.     *)
(***************************************************************************)
ACCESS_TOKEN_EXPIRE_MINUTES == 30
REFRESH_TOKEN_EXPIRE_DAYS == 7
MAX_SESSIONS_PER_USER == SessionCap

AccessDelta == ACCESS_TOKEN_EXPIRE_MINUTES * 60
RefreshDelta == REFRESH_TOKEN_EXPIRE_DAYS * 86400

ExpiresDeltaIgnoresRemember(remember_me) == AccessDelta

\* timedelta chosen by create_user_session
ExpiresDelta(remember_me) == IF remember_me THEN RefreshDelta ELSE AccessDelta

Procs == 1 .. NumProcs

\* what the clients send
RegInputs ==
    {[username |-> "alice", email |-> "alice@example.com", password |-> "Passw0rdA"],
     [username |-> "bob", email |-> "bob@example.com", password |-> "Passw0rdB"]}

UserNames == {r.username : r \in RegInputs}

Passwords == {r.password : r \in RegInputs}

(***************************************************************************)
(* Token codec (app/core/security.py): a signed token is its claims; the   *)
(* signature makes any other value unverifiable, so the only tokens that   *)
(* verify are the ones the codec issued.  Issuing is a function of the     *)
(* claims, the kind and the clock.                                         *)
(***************************************************************************)
GarbageToken == [garbage |-> 0]

create_access_token(data, delta, now) ==
    [sub |-> data.sub, user_id |-> data.user_id, type |-> "access", exp |-> now + delta]

create_refresh_token(data, now) ==
    [sub |-> data.sub, user_id |-> data.user_id, type |-> "refresh", exp |-> now + RefreshDelta]

IsJwt(tok) == DOMAIN tok = {"sub", "user_id", "type", "exp"}

\* TRUE when verify_token returns the payload, FALSE when it raises
verify_token(tok, kind, now) ==
    /\ IsJwt(tok)
    /\ tok.type = kind
    /\ now <= tok.exp

\* password hashing: only verify_password compares a plaintext to a digest
get_password_hash(password) == [digest_of |-> password]

verify_password(password, hashed) == hashed.digest_of = password

(***************************************************************************)
(* Store and cache queries.                                                *)
(***************************************************************************)
Rows == 1 .. Len(sessions)

UserIds == 1 .. Len(users)

\* select(User).where(User.username == name): the ids of the matching rows
UsersByName(name) == {u \in UserIds : users[u].username = name}

UsersByEmail(email) == {u \in UserIds : users[u].email = email}

\* .where(UserSession.user_id == uid, UserSession.is_active == True)
ActiveRows(uid) == {i \in Rows : sessions[i].user_id = uid /\ sessions[i].is_active}

ActiveCount(uid) == Cardinality(ActiveRows(uid))

\* row i comes before row j in ORDER BY created_at DESC; rows created within
\* the same second keep their insertion order
NewerByCreatedAt(i, j) ==
    \/ sessions[i].created_at > sessions[j].created_at
    \/ sessions[i].created_at = sessions[j].created_at /\ i > j

NewerByLastActivity(i, j) ==
    \/ sessions[i].last_activity > sessions[j].last_activity
    \/ sessions[i].last_activity = sessions[j].last_activity /\ i > j

\* the order of the eviction query
Newer(i, j) == NewerByCreatedAt(i, j)

\* the rows of S as the sequence the ORDER BY clause returns
RECURSIVE SortDesc(_)
SortDesc(S) ==
    IF S = {} THEN <<>>
    ELSE LET first == CHOOSE i \in S : \A j \in S \ {i} : Newer(i, j)
         IN  <<first>> \o SortDesc(S \ {first})

\* python: seq[k:] for a 0-based k
SliceFrom(seq, k) == SubSeq(seq, k + 1, Len(seq))

OldestSliceOffByOne(seq) == SliceFrom(seq, MAX_SESSIONS_PER_USER)

\* python: seq[MAX_SESSIONS_PER_USER-1:]
OldestSlice(seq) == SliceFrom(seq, MAX_SESSIONS_PER_USER - 1)

OldestSessionsStrict(active_sessions) ==
    IF Len(active_sessions) > MAX_SESSIONS_PER_USER
    THEN OldestSlice(active_sessions)
    ELSE <<>>

\* lines 101-105: the rows create_user_session marks is_active = False
OldestSessions(active_sessions) ==
    IF Len(active_sessions) >= MAX_SESSIONS_PER_USER
    THEN OldestSlice(active_sessions)
    ELSE <<>>

Range(seq) == {seq[k] : k \in 1 .. Len(seq)}

\* uuid.uuid4() of the n-th session row
SessionToken(n) == [uuid |-> n]

CacheKeys == {e.key : e \in cache}

CacheGet(key) == {e.value : e \in {c \in cache : c.key = key}}

\* redis SETEX key ttl value
CacheSetex(key, ttl, value, now) ==
    {e \in cache : e.key # key} \cup {[key |-> key, value |-> value, exp |-> now + ttl]}

CacheDelete(keys) == {e \in cache : e.key \notin keys}

(***************************************************************************)
(* Requests.  loc[p] are the locals of the request p is running, resp[p]   *)
(* is what p's last completed request returned.                            *)
(***************************************************************************)
NoLoc ==
    [op |-> "none", arg |-> GarbageToken, user |-> 0, sess |-> 0, snap |-> <<>>,
     now |-> 0, access |-> GarbageToken, refresh |-> GarbageToken,
     remember |-> FALSE, name |-> "", ov |-> FALSE, late |-> FALSE]

NoResp ==
    [op |-> "none", arg |-> GarbageToken, kind |-> "none", status |-> 0,
     detail |-> "", access |-> GarbageToken, refresh |-> GarbageToken,
     expires_in |-> 0, sess |-> 0, user |-> 0, ov |-> FALSE, late |-> FALSE]

\* p's request returns: its locals are dropped and the response is kept
Return(p, l, kind, status, detail) ==
    /\ pc' = [pc EXCEPT ![p] = "idle"]
    /\ resp' = [resp EXCEPT ![p] =
           [NoResp EXCEPT !.op = l.op, !.arg = l.arg, !.kind = kind,
                          !.status = status, !.detail = detail, !.sess = l.sess,
                          !.user = l.user]]
    /\ loc' = [loc EXCEPT ![p] = NoLoc]

\* p's request returns a Token
ReturnToken(p, l, expires_in) ==
    /\ pc' = [pc EXCEPT ![p] = "idle"]
    /\ resp' = [resp EXCEPT ![p] =
           [NoResp EXCEPT !.op = l.op, !.arg = l.arg, !.kind = "ok",
                          !.status = 200, !.access = l.access,
                          !.refresh = l.refresh, !.expires_in = expires_in,
                          !.sess = l.sess, !.user = l.user,
                          !.ov = l.ov, !.late = l.late]]
    /\ loc' = [loc EXCEPT ![p] = NoLoc]

\* p's request goes on at `label` with the locals l
Continue(p, l, label) ==
    /\ pc' = [pc EXCEPT ![p] = label]
    /\ loc' = [loc EXCEPT ![p] = l]
    /\ UNCHANGED resp

\* p starts a request, if the scenario lets it send one more (reqs = 0: no limit)
Begin(p, sc) ==
    /\ pc[p] = "idle"
    /\ IF sc.reqs = 0
       THEN nreq' = nreq
       ELSE nreq[p] < sc.reqs /\ nreq' = [nreq EXCEPT ![p] = @ + 1]

\* requests that are going to insert a session row, or a user row
Creating == {q \in Procs : loc[q].op \in {"register", "login"}}

Registering == {q \in Procs : loc[q].op = "register"}

RoomForSession(maxrows) == Len(sessions) + Cardinality(Creating) < maxrows

RoomForUser == Len(users) + Cardinality(Registering) < MaxUsers

Init ==
    /\ users = <<>>
    /\ sessions = <<>>
    /\ cache = {}
    /\ clock = 0
    /\ nticks = 0
    /\ pc = [p \in Procs |-> "idle"]
    /\ loc = [p \in Procs |-> NoLoc]
    /\ resp = [p \in Procs |-> NoResp]
    /\ nreq = [p \in Procs |-> 0]

\* time passes; redis drops the entries whose TTL has run out
Tick(steps) ==
    /\ nticks < MaxTicks
    /\ \E d \in steps :
          /\ clock' = clock + d
          /\ cache' = {e \in cache : e.exp > clock + d}
    /\ nticks' = nticks + 1
    /\ UNCHANGED <<users, sessions, pc, loc, resp, nreq>>

(***************************************************************************)
(* POST /register: register_user, get_user_by_username,                    *)
(* create_user_session.                                                    *)
(***************************************************************************)
\* register_user, lines 25-31: the username check
RegisterCheckUsername(p, input, sc) ==
    /\ Begin(p, sc)
    /\ UsersByName(input.username) # {} \/ (RoomForUser /\ RoomForSession(sc.rows))
    /\ LET l == [NoLoc EXCEPT !.op = "register", !.arg = input]
       IN  IF UsersByName(input.username) # {}
           THEN Return(p, l, "DuplicateUsername", 400, "Username already registered")
           ELSE Continue(p, l, "rg_email")
    /\ UNCHANGED <<users, sessions, cache, clock, nticks>>

RegisterCheckEmailByName(p) ==
    /\ pc[p] = "rg_email"
    /\ IF UsersByName(loc[p].arg.email) # {}
       THEN Return(p, loc[p], "DuplicateEmail", 400, "Email already registered")
       ELSE Continue(p, loc[p], "rg_insert")
    /\ UNCHANGED <<users, sessions, cache, clock, nticks, nreq>>

\* register_user, lines 33-39: the email check
RegisterCheckEmail(p) ==
    /\ pc[p] = "rg_email"
    /\ IF UsersByEmail(loc[p].arg.email) # {}
       THEN Return(p, loc[p], "DuplicateEmail", 400, "Email already registered")
       ELSE Continue(p, loc[p], "rg_insert")
    /\ UNCHANGED <<users, sessions, cache, clock, nticks, nreq>>

\* the User row lines 42-48 build; is_active defaults to True, last_login to None
NewUser(input) ==
    [username |-> input.username, email |-> input.email,
     hashed_password |-> get_password_hash(input.password),
     is_active |-> TRUE, last_login |-> -1]

NoUniqueIndex(row) == FALSE

\* the users table (app/models/user.py) has a unique index on username and
\* one on email: the insert of a row that repeats either is refused
UniqueViolation(row) ==
    \E u \in UserIds : users[u].username = row.username \/ users[u].email = row.email

\* register_user, lines 41-54: insert and commit; when the commit raises
\* IntegrityError the route answers 500 (routes/auth.py 45-49)
RegisterInsert(p) ==
    /\ pc[p] = "rg_insert"
    /\ IF UniqueViolation(NewUser(loc[p].arg))
       THEN /\ users' = users
            /\ Return(p, loc[p], "ServerError", 500, "Registration failed")
       ELSE /\ users' = Append(users, NewUser(loc[p].arg))
            /\ Continue(p, loc[p], "rg_get")
    /\ UNCHANGED <<sessions, cache, clock, nticks, nreq>>

\* route register, line 31: get_user_by_username (scalar_one_or_none raises
\* when two rows match, which the route turns into a 500)
RegisterGetUser(p) ==
    /\ pc[p] = "rg_get"
    /\ LET found == UsersByName(loc[p].arg.username)
       IN  IF Cardinality(found) = 1
           THEN Continue(p, [loc[p] EXCEPT !.user = CHOOSE u \in found : TRUE,
                                           !.remember = FALSE], "cs_read")
           ELSE Return(p, loc[p], "ServerError", 500, "Registration failed")
    /\ UNCHANGED <<users, sessions, cache, clock, nticks, nreq>>

(***************************************************************************)
(* POST /login: authenticate_user, create_user_session.                    *)
(***************************************************************************)
LoginAuthenticateTellsUnknown(p, username, password, remember_me, sc) ==
    /\ Begin(p, sc)
    /\ RoomForSession(sc.rows)
    /\ LET l == [NoLoc EXCEPT !.op = "login",
                              !.arg = [username |-> username, password |-> password],
                              !.remember = remember_me]
           found == UsersByName(username)
           user == CHOOSE u \in found : TRUE
       IN  IF found = {}
           THEN Return(p, l, "UserNotFound", 404, "User not found")
           ELSE IF ~verify_password(password, users[user].hashed_password)
           THEN Return(p, l, "InvalidCredentials", 401, "Invalid username or password")
           ELSE IF ~users[user].is_active
           THEN Return(p, l, "AccountInactive", 400, "Inactive user account")
           ELSE Continue(p, [l EXCEPT !.user = user, !.now = clock], "au_commit")
    /\ UNCHANGED <<users, sessions, cache, clock, nticks>>

LoginAuthenticateSkipsActive(p, username, password, remember_me, sc) ==
    /\ Begin(p, sc)
    /\ RoomForSession(sc.rows)
    /\ LET l == [NoLoc EXCEPT !.op = "login",
                              !.arg = [username |-> username, password |-> password],
                              !.remember = remember_me]
           found == UsersByName(username)
           user == CHOOSE u \in found : TRUE
       IN  IF Cardinality(found) > 1
           THEN Return(p, l, "ServerError", 500, "Login failed")
           ELSE IF found = {} \/ ~verify_password(password, users[user].hashed_password)
           THEN Return(p, l, "InvalidCredentials", 401, "Invalid username or password")
           ELSE Continue(p, [l EXCEPT !.user = user, !.now = clock], "au_commit")
    /\ UNCHANGED <<users, sessions, cache, clock, nticks>>

\* authenticate_user, lines 60-71, and the route's 401 for None
LoginAuthenticate(p, username, password, remember_me, sc) ==
    /\ Begin(p, sc)
    /\ RoomForSession(sc.rows)
    /\ LET l == [NoLoc EXCEPT !.op = "login",
                              !.arg = [username |-> username, password |-> password],
                              !.remember = remember_me]
           found == UsersByName(username)
           user == CHOOSE u \in found : TRUE
       IN  IF Cardinality(found) > 1
           THEN Return(p, l, "ServerError", 500, "Login failed")
           ELSE IF found = {} \/ ~verify_password(password, users[user].hashed_password)
           THEN Return(p, l, "InvalidCredentials", 401, "Invalid username or password")
           ELSE IF ~users[user].is_active
           THEN Return(p, l, "AccountInactive", 400, "Inactive user account")
           ELSE Continue(p, [l EXCEPT !.user = user, !.now = clock], "au_commit")
    /\ UNCHANGED <<users, sessions, cache, clock, nticks>>

\* authenticate_user, lines 73-79: update last_login and commit
LoginUpdateLastLogin(p) ==
    /\ pc[p] = "au_commit"
    /\ users' = [users EXCEPT ![loc[p].user].last_login = loc[p].now]
    /\ Continue(p, loc[p], "cs_read")
    /\ UNCHANGED <<sessions, cache, clock, nticks, nreq>>

(***************************************************************************)
(* create_user_session.                                                    *)
(***************************************************************************)
\* line 108
TokenData(uid) == [sub |-> users[uid].username, user_id |-> uid]

\* lines 93-120: the query for the active sessions, and the code that runs
\* before the next await: the tokens and the expiry are made now
CreateSessionRead(p) ==
    /\ pc[p] = "cs_read"
    /\ Continue(p, [loc[p] EXCEPT
                       !.snap = SortDesc(ActiveRows(loc[p].user)),
                       !.now = clock,
                       !.access = create_access_token(TokenData(loc[p].user),
                                                      ExpiresDelta(loc[p].remember), clock),
                       !.refresh = create_refresh_token(TokenData(loc[p].user), clock)],
                "cs_commit")
    /\ UNCHANGED <<users, sessions, cache, clock, nticks, nreq>>

\* lines 122-129: the new row; created_at, last_activity and is_active are the
\* column defaults
NewSession(l, n, now) ==
    [user_id |-> l.user, session_token |-> SessionToken(n), refresh_token |-> l.refresh,
     expires_at |-> l.now + ExpiresDelta(l.remember), created_at |-> now,
     last_activity |-> now, is_active |-> TRUE]

CommitNewSessionLost(l, now) ==
    LET evict == Range(OldestSessions(l.snap))
    IN  [i \in Rows |-> IF i \in evict
                        THEN [sessions[i] EXCEPT !.is_active = FALSE]
                        ELSE sessions[i]]

\* the session rows after the commit of line 132: the rows marked at lines
\* 104-105 are updated by primary key, the new row is inserted
CommitNewSession(l, now) ==
    LET evict == Range(OldestSessions(l.snap))
    IN  Append([i \in Rows |-> IF i \in evict
                               THEN [sessions[i] EXCEPT !.is_active = FALSE]
                               ELSE sessions[i]],
               NewSession(l, Len(sessions) + 1, now))

\* lines 131-132
CreateSessionCommit(p) ==
    /\ pc[p] = "cs_commit"
    /\ sessions' = CommitNewSession(loc[p], clock)
    /\ Continue(p, [loc[p] EXCEPT !.sess = Len(sessions) + 1], "cs_cache")
    /\ UNCHANGED <<users, cache, clock, nticks, nreq>>

\* lines 134-146: the cache entry, and the Token returned
CreateSessionCache(p) ==
    /\ pc[p] = "cs_cache"
    /\ cache' = CacheSetex(SessionToken(loc[p].sess), ExpiresDelta(loc[p].remember),
                           users[loc[p].user].username, clock)
    /\ ReturnToken(p, loc[p], ExpiresDelta(loc[p].remember))
    /\ UNCHANGED <<users, sessions, clock, nticks, nreq>>

(***************************************************************************)
(* refresh_token.                                                          *)
(***************************************************************************)
\* the tokens a client can send: the ones the service has handed out
ClientTokens ==
    {sessions[i].refresh_token : i \in Rows}
        \cup {resp[q].refresh : q \in Procs}
        \cup {resp[q].access : q \in Procs}
        \cup {t \in {resp[q].arg : q \in Procs} : IsJwt(t)}
        \cup {GarbageToken}

\* .where(UserSession.refresh_token == tok, UserSession.is_active == True)
SessionsByRefreshToken(tok) ==
    {i \in Rows : sessions[i].refresh_token = tok /\ sessions[i].is_active}

\* the requests that have matched a session by tok and not yet written it
RefreshesInFlight(tok) ==
    {q \in Procs : pc[q] \in {"rf_user", "rf_commit"} /\ loc[q].arg = tok}

RefreshLookupResultStoreFirst(tok) ==
    IF Cardinality(SessionsByRefreshToken(tok)) > 1 THEN "ServerError"
    ELSE IF SessionsByRefreshToken(tok) # {} THEN "found"
    ELSE IF ~verify_token(tok, "refresh", clock) THEN "InvalidToken"
    ELSE "SessionNotFound"

RefreshLookupResultAnyKind(tok) ==
    IF ~verify_token(tok, "refresh", clock) /\ ~verify_token(tok, "access", clock)
    THEN "InvalidToken"
    ELSE IF Cardinality(SessionsByRefreshToken(tok)) > 1 THEN "ServerError"
    ELSE IF SessionsByRefreshToken(tok) = {} THEN "SessionNotFound"
    ELSE "found"

\* lines 152-172: what the token check and the session query come to
\* (scalar_one_or_none raises when two rows match: the route answers 500)
RefreshLookupResult(tok) ==
    IF ~verify_token(tok, "refresh", clock) THEN "InvalidToken"
    ELSE IF Cardinality(SessionsByRefreshToken(tok)) > 1 THEN "ServerError"
    ELSE IF SessionsByRefreshToken(tok) = {} THEN "SessionNotFound"
    ELSE "found"

\* lines 152-172: verify the token, then look the session up
RefreshLookup(p, tok, sc) ==
    /\ Begin(p, sc)
    /\ LET l == [NoLoc EXCEPT !.op = "refresh", !.arg = tok]
           found == SessionsByRefreshToken(tok)
           result == RefreshLookupResult(tok)
       IN  IF result = "InvalidToken"
           THEN Return(p, l, "InvalidToken", 401, "Invalid refresh token")
           ELSE IF result = "ServerError"
           THEN Return(p, l, "ServerError", 500, "Token refresh failed")
           ELSE IF result = "SessionNotFound"
           THEN Return(p, l, "SessionNotFound", 401, "Invalid refresh token")
           ELSE Continue(p, [l EXCEPT !.sess = CHOOSE i \in found : TRUE,
                                      !.ov = (RefreshesInFlight(tok) \ {p}) # {}],
                         "rf_user")
    /\ UNCHANGED <<users, sessions, cache, clock, nticks>>

\* lines 174-191: the owning user, and the code that runs before the commit
RefreshGetUser(p) ==
    /\ pc[p] = "rf_user"
    /\ LET uid == sessions[loc[p].sess].user_id
       IN  IF uid \notin UserIds \/ ~users[uid].is_active
           THEN Return(p, loc[p], "UserInactive", 401, "User not found or inactive")
           ELSE Continue(p, [loc[p] EXCEPT
                                !.user = uid,
                                !.now = clock,
                                !.access = create_access_token(TokenData(uid), AccessDelta, clock),
                                !.refresh = create_refresh_token(TokenData(uid), clock)],
                         "rf_commit")
    /\ UNCHANGED <<users, sessions, cache, clock, nticks, nreq>>

\* lines 152-198 run without another request in between: what refresh_token
\* answers to tok
RefreshResult(tok) ==
    IF RefreshLookupResult(tok) # "found" THEN RefreshLookupResult(tok)
    ELSE LET uid == sessions[CHOOSE i \in SessionsByRefreshToken(tok) : TRUE].user_id
         IN  IF uid \notin UserIds \/ ~users[uid].is_active
             THEN "UserInactive"
             ELSE "ok"

RefreshedRowWholeObject(row, l) ==
    [row EXCEPT !.refresh_token = l.refresh, !.last_activity = l.now, !.is_active = TRUE]

RefreshedRowSliding(row, l) ==
    [row EXCEPT !.refresh_token = l.refresh, !.last_activity = l.now,
                !.expires_at = l.now + AccessDelta]

\* lines 189-192: the commit writes the two attributes that were assigned
RefreshedRow(row, l) ==
    [row EXCEPT !.refresh_token = l.refresh, !.last_activity = l.now]

RefreshCommit(p) ==
    /\ pc[p] = "rf_commit"
    /\ sessions' = [sessions EXCEPT ![loc[p].sess] = RefreshedRow(@, loc[p])]
    /\ ReturnToken(p, [loc[p] EXCEPT !.late = ~sessions[loc[p].sess].is_active],
                   ACCESS_TOKEN_EXPIRE_MINUTES * 60)
    /\ UNCHANGED <<users, cache, clock, nticks, nreq>>

(***************************************************************************)
(* logout_user, logout_all_sessions.                                       *)
(***************************************************************************)
\* the session tokens a client can send, and one that was never issued
ClientSessionTokens == {SessionToken(n) : n \in 0 .. Len(sessions)}

ToggleByToken(tok) ==
    [i \in Rows |-> IF sessions[i].session_token = tok
                    THEN [sessions[i] EXCEPT !.is_active = ~@]
                    ELSE sessions[i]]

\* update(UserSession).where(session_token == tok).values(is_active=False)
DeactivateByToken(tok) ==
    [i \in Rows |-> IF sessions[i].session_token = tok
                    THEN [sessions[i] EXCEPT !.is_active = FALSE]
                    ELSE sessions[i]]

\* lines 204-210
LogoutUpdate(p, tok, sc) ==
    /\ Begin(p, sc)
    /\ sessions' = DeactivateByToken(tok)
    /\ Continue(p, [NoLoc EXCEPT !.op = "logout", !.arg = tok], "lo_cache")
    /\ UNCHANGED <<users, cache, clock, nticks>>

\* lines 212-216
LogoutCache(p) ==
    /\ pc[p] = "lo_cache"
    /\ cache' = CacheDelete({loc[p].arg})
    /\ Return(p, loc[p], "ok", 200, "")
    /\ UNCHANGED <<users, sessions, clock, nticks, nreq>>

\* lines 222-227: the sessions whose cache entries will be deleted
LogoutAllRead(p, uid, sc) ==
    /\ Begin(p, sc)
    /\ Continue(p, [NoLoc EXCEPT !.op = "logout_all", !.arg = [user_id |-> uid],
                                 !.user = uid, !.snap = SortDesc(ActiveRows(uid))],
                "la_update")
    /\ UNCHANGED <<users, sessions, cache, clock, nticks>>

DeactivateEveryUser(uid) ==
    [i \in Rows |-> IF sessions[i].is_active
                    THEN [sessions[i] EXCEPT !.is_active = FALSE]
                    ELSE sessions[i]]

\* update(UserSession).where(user_id == uid, is_active == True)
\*     .values(is_active=False)
DeactivateAll(uid) ==
    [i \in Rows |-> IF sessions[i].user_id = uid /\ sessions[i].is_active
                    THEN [sessions[i] EXCEPT !.is_active = FALSE]
                    ELSE sessions[i]]

\* lines 229-235
LogoutAllUpdate(p) ==
    /\ pc[p] = "la_update"
    /\ sessions' = DeactivateAll(loc[p].user)
    /\ Continue(p, loc[p], "la_cache")
    /\ UNCHANGED <<users, cache, clock, nticks, nreq>>

\* lines 237-242
LogoutAllCache(p) ==
    /\ pc[p] = "la_cache"
    /\ cache' = CacheDelete({sessions[i].session_token : i \in Range(loc[p].snap)})
    /\ Return(p, loc[p], "ok", 200, "")
    /\ UNCHANGED <<users, sessions, clock, nticks, nreq>>

(***************************************************************************)
(* verify_session.                                                         *)
(***************************************************************************)
\* lines 254-259
VerifyCacheGet(p, tok, sc) ==
    /\ Begin(p, sc)
    /\ LET l == [NoLoc EXCEPT !.op = "verify_session", !.arg = tok]
           hit == CacheGet(tok)
       IN  IF hit = {}
           THEN Return(p, l, "NoSession", 200, "")
           ELSE Continue(p, [l EXCEPT !.name = CHOOSE n \in hit : TRUE], "vs_user")
    /\ UNCHANGED <<users, sessions, cache, clock, nticks>>

VerifyGetUserSkipsActive(p) ==
    /\ pc[p] = "vs_user"
    /\ LET found == UsersByName(loc[p].name)
           user == CHOOSE u \in found : TRUE
       IN  IF Cardinality(found) > 1
           THEN Return(p, loc[p], "ServerError", 500, "")
           ELSE IF found = {}
           THEN Return(p, loc[p], "NoSession", 200, "")
           ELSE Continue(p, [loc[p] EXCEPT !.user = user, !.now = clock], "vs_commit")
    /\ UNCHANGED <<users, sessions, cache, clock, nticks, nreq>>

\* lines 261-266
VerifyGetUser(p) ==
    /\ pc[p] = "vs_user"
    /\ LET found == UsersByName(loc[p].name)
           user == CHOOSE u \in found : TRUE
       IN  IF Cardinality(found) > 1
           THEN Return(p, loc[p], "ServerError", 500, "")
           ELSE IF found = {} \/ ~users[user].is_active
           THEN Return(p, loc[p], "NoSession", 200, "")
           ELSE Continue(p, [loc[p] EXCEPT !.user = user, !.now = clock], "vs_commit")
    /\ UNCHANGED <<users, sessions, cache, clock, nticks, nreq>>

TouchAllOfUser(tok, now) ==
    [i \in Rows |-> IF \E j \in Rows : /\ sessions[j].session_token = tok
                                        /\ sessions[j].user_id = sessions[i].user_id
                    THEN [sessions[i] EXCEPT !.last_activity = now]
                    ELSE sessions[i]]

\* update(UserSession).where(session_token == tok).values(last_activity=now)
TouchByToken(tok, now) ==
    [i \in Rows |-> IF sessions[i].session_token = tok
                    THEN [sessions[i] EXCEPT !.last_activity = now]
                    ELSE sessions[i]]

\* lines 254-266 run without another request in between: verify_session
\* returns a user for tok
VerifySessionFindsUser(tok) ==
    \E n \in CacheGet(tok) :
        /\ Cardinality(UsersByName(n)) = 1
        /\ \A u \in UsersByName(n) : users[u].is_active

\* lines 268-276
VerifyTouch(p) ==
    /\ pc[p] = "vs_commit"
    /\ sessions' = TouchByToken(loc[p].arg, loc[p].now)
    /\ Return(p, loc[p], "ok", 200, "")
    /\ UNCHANGED <<users, cache, clock, nticks, nreq>>

(***************************************************************************)
(* Specifications.  A scenario says which requests the clients send: who   *)
(* registers, the remember_me values of the logins, how many session rows  *)
(* may be created, and by how much the clock advances.                     *)
(***************************************************************************)
\* POST /register
RegisterStep(p, sc) ==
    \/ \E input \in sc.regs : RegisterCheckUsername(p, input, sc)
    \/ RegisterCheckEmail(p)
    \/ RegisterInsert(p)
    \/ RegisterGetUser(p)

\* POST /login, and the create_user_session of both routes
LoginStep(p, sc) ==
    \/ \E username \in UserNames, password \in sc.passwords, remember_me \in sc.remember :
          LoginAuthenticate(p, username, password, remember_me, sc)
    \/ LoginUpdateLastLogin(p)
    \/ CreateSessionRead(p)
    \/ CreateSessionCommit(p)
    \/ CreateSessionCache(p)

RefreshStep(p, sc) ==
    \/ \E tok \in ClientTokens : RefreshLookup(p, tok, sc)
    \/ RefreshGetUser(p)
    \/ RefreshCommit(p)

LogoutStep(p, sc) ==
    \/ \E tok \in ClientSessionTokens : LogoutUpdate(p, tok, sc)
    \/ LogoutCache(p)

LogoutAllStep(p, sc) ==
    \/ \E uid \in UserIds : LogoutAllRead(p, uid, sc)
    \/ LogoutAllUpdate(p)
    \/ LogoutAllCache(p)

VerifySessionStep(p, sc) ==
    \/ \E tok \in ClientSessionTokens : VerifyCacheGet(p, tok, sc)
    \/ VerifyGetUser(p)
    \/ VerifyTouch(p)

\* one request at a time
SeqScenario ==
    [regs |-> RegInputs, passwords |-> Passwords, remember |-> {FALSE},
     rows |-> MaxRows, ticks |-> {1, AccessDelta}, reqs |-> 0]

Next ==
    \/ Tick(SeqScenario.ticks)
    \/ RegisterStep(1, SeqScenario)
    \/ LoginStep(1, SeqScenario)
    \/ RefreshStep(1, SeqScenario)
    \/ LogoutStep(1, SeqScenario)
    \/ LogoutAllStep(1, SeqScenario)
    \/ VerifySessionStep(1, SeqScenario)

Spec == Init /\ [][Next]_vars

\* The store and the cache after alice has registered (POST /register at
\* clock 0): her user row, the session row of that request and its cache entry.
Alice == CHOOSE r \in RegInputs : r.username = "alice"

AliceData == [sub |-> Alice.username, user_id |-> 1]

InitRegistered ==
    /\ users = <<NewUser(Alice)>>
    /\ sessions = <<NewSession([NoLoc EXCEPT !.user = 1,
                                             !.refresh = create_refresh_token(AliceData, 0)],
                               1, 0)>>
    /\ cache = {[key |-> SessionToken(1), value |-> Alice.username,
                 exp |-> ExpiresDelta(FALSE)]}
    /\ clock = 0
    /\ nticks = 0
    /\ pc = [p \in Procs |-> "idle"]
    /\ loc = [p \in Procs |-> NoLoc]
    /\ resp = [p \in Procs |-> NoResp]
    /\ nreq = [p \in Procs |-> 0]

\* the steps of NumProcs requests interleave
ConcScenario ==
    [regs |-> {}, passwords |-> {Alice.password}, remember |-> {FALSE},
     rows |-> MaxRowsConc, ticks |-> {1}, reqs |-> MaxReqs]

NextConc ==
    \/ Tick(ConcScenario.ticks)
    \/ \E p \in Procs :
          \/ LoginStep(p, ConcScenario)
          \/ RefreshStep(p, ConcScenario)
          \/ LogoutStep(p, ConcScenario)
          \/ LogoutAllStep(p, ConcScenario)
          \/ VerifySessionStep(p, ConcScenario)

SpecConc == InitRegistered /\ [][NextConc]_vars

\* logins only, any number of them, NumProcs at a time
RaceScenario == [ConcScenario EXCEPT !.rows = MaxRowsRace, !.reqs = 0]

NextRace == \E p \in Procs : LoginStep(p, RaceScenario)

SpecRace == InitRegistered /\ [][NextRace]_vars

(***************************************************************************)
(* The claims.                                                             *)
(***************************************************************************)
\* a session of u has been deactivated and never logged out: its cache
\* entry is still there
Evicted(i) == ~sessions[i].is_active /\ sessions[i].session_token \in CacheKeys

\* C1: in every state reached by requests that do not overlap, each user
\* has at most MAX_SESSIONS_PER_USER active sessions.
C1_SessionCap == \A u \in UserIds : ActiveCount(u) <= MAX_SESSIONS_PER_USER

\* a login has just evicted a session and the user is at the cap
C1_Witness ==
    /\ pc[1] = "idle"
    /\ resp[1].op = "login"
    /\ resp[1].kind = "ok"
    /\ ActiveCount(resp[1].user) = MAX_SESSIONS_PER_USER
    /\ \E i \in Rows : sessions[i].user_id = resp[1].user /\ Evicted(i)

C2_EvictsOldestByCreation ==
    [][\A p \in Procs :
          (/\ pc[p] = "cs_commit"
           /\ pc'[p] = "cs_cache"
           /\ Range(loc[p].snap) = ActiveRows(loc[p].user)
           /\ Len(loc[p].snap) >= MAX_SESSIONS_PER_USER)
          => LET u == loc[p].user
                 n == ActiveCount(u)
                 gone == {i \in Rows : sessions[i].is_active /\ ~sessions'[i].is_active}
                 new == Len(sessions) + 1
             IN  /\ gone \subseteq ActiveRows(u)
                 /\ Cardinality(gone) = n - (MAX_SESSIONS_PER_USER - 1)
                 /\ \A i \in gone, j \in ActiveRows(u) \ gone : NewerByCreatedAt(j, i)
                 /\ Len(sessions') = new
                 /\ sessions'[new].is_active
                 /\ sessions'[new].user_id = u
                 /\ Cardinality({i \in 1 .. new : sessions'[i].user_id = u
                                                   /\ sessions'[i].is_active})
                        = MAX_SESSIONS_PER_USER]_vars

\* a login has found more than MAX_SESSIONS_PER_USER active sessions (two
\* logins had raced) and has cut them down
C2_Witness ==
    \E p \in Procs :
        /\ pc[p] = "cs_cache"
        /\ Len(loc[p].snap) > MAX_SESSIONS_PER_USER
        /\ ActiveCount(loc[p].user) = MAX_SESSIONS_PER_USER
        /\ \A k \in MAX_SESSIONS_PER_USER .. Len(loc[p].snap) :
              ~sessions[loc[p].snap[k]].is_active

\* C4: a session that is inactive is never active again, whatever the
\* interleaving of the requests.
C4_InactiveIsTerminal ==
    [][\A i \in Rows : ~sessions[i].is_active => ~sessions'[i].is_active]_vars

\* a refresh matched a session while it was active and wrote its new token
\* after the session had been deactivated
C4_Witness ==
    \E p \in Procs :
        /\ pc[p] = "idle"
        /\ resp[p].op = "refresh"
        /\ resp[p].kind = "ok"
        /\ resp[p].late
        /\ ~sessions[resp[p].sess].is_active
        /\ sessions[resp[p].sess].refresh_token = resp[p].refresh

\* the last request served was a refresh that returned a token pair
RefreshSucceeded(p) == pc[p] = "idle" /\ resp[p].op = "refresh" /\ resp[p].kind = "ok"

\* C5: a successful refresh(R1) returns R2 # R1 and the session stores R2;
\* from then on refresh(R1) fails with SessionNotFound and refresh(R2) succeeds.
C5_RefreshRotation ==
    RefreshSucceeded(1)
    => /\ resp[1].refresh # resp[1].arg
       /\ sessions[resp[1].sess].refresh_token = resp[1].refresh
       /\ verify_token(resp[1].arg, "refresh", clock)
             => RefreshResult(resp[1].arg) = "SessionNotFound"
       /\ verify_token(resp[1].refresh, "refresh", clock)
             => RefreshResult(resp[1].refresh) = "ok"

\* C6: no two active sessions store the same refresh token.
C6_ActiveRefreshTokensUnique ==
    \A i, j \in Rows :
        (i # j /\ sessions[i].is_active /\ sessions[j].is_active)
        => sessions[i].refresh_token # sessions[j].refresh_token

\* C7: of two refresh calls with the same token that overlap (one looks the
\* session up while the other has looked it up and not yet committed) at most
\* one returns a token pair.
C7_RefreshTokenSingleUse ==
    \A p, q \in Procs :
        (/\ p # q
         /\ RefreshSucceeded(p)
         /\ resp[q].op = "refresh"
         /\ pc[q] = "idle"
         /\ resp[q].arg = resp[p].arg
         /\ resp[p].ov)
        => resp[q].kind # "ok"

\* C8: a refresh with a token that a deactivated session stores returns no
\* token pair.
C8_DeactivatedTokenNotResolvable ==
    RefreshSucceeded(1)
    => \A i \in Rows : sessions[i].refresh_token = resp[1].arg => sessions[i].is_active

\* the steps of a logout_user(tok) call of client p
LogoutCall(p, tok) ==
    \/ pc[p] = "idle" /\ pc'[p] = "lo_cache" /\ loc'[p].arg = tok
    \/ pc[p] = "lo_cache" /\ pc'[p] = "idle" /\ loc[p].arg = tok

\* C9: logout succeeds and leaves the session inactive and uncached; a second
\* logout with the same token right after the first, and a logout with a token
\* of no session, change no session row and no cache entry.
C9_LogoutIdempotent ==
    /\ [](pc[1] = "idle" /\ resp[1].op = "logout"
            => /\ resp[1].kind = "ok"
               /\ resp[1].arg \notin CacheKeys
               /\ \A i \in Rows :
                     sessions[i].session_token = resp[1].arg => ~sessions[i].is_active)
    /\ [][\A tok \in ClientSessionTokens :
             (/\ LogoutCall(1, tok)
              /\ \/ resp[1].op = "logout" /\ resp[1].arg = tok
                 \/ \A i \in Rows : sessions[i].session_token # tok)
             => sessions' = sessions /\ cache' = cache]_vars

\* the second of two logouts of a session in a row has deactivated again
C9_Witness ==
    /\ pc[1] = "lo_cache"
    /\ resp[1].op = "logout"
    /\ resp[1].arg = loc[1].arg
    /\ \E i \in Rows : sessions[i].session_token = loc[1].arg /\ ~sessions[i].is_active

\* C10: when logout_all_sessions has returned the user has no active session
\* and verify_session finds no session for any session token of the user.
C10_LogoutAllLeavesNoSession ==
    (pc[1] = "idle" /\ resp[1].op = "logout_all")
    => /\ ActiveRows(resp[1].user) = {}
       /\ \A i \in Rows :
             sessions[i].user_id = resp[1].user
             => ~VerifySessionFindsUser(sessions[i].session_token)

\* C11: whenever no request is in flight, every cache entry is the entry of a
\* session row that is active; a session deactivated by eviction has none and
\* verify_session returns no user for its token.
C11_CacheEntriesAreActive ==
    pc[1] = "idle"
    => /\ \A k \in CacheKeys :
             \E i \in Rows : sessions[i].session_token = k /\ sessions[i].is_active
       /\ \A i \in Rows :
             ~sessions[i].is_active => ~VerifySessionFindsUser(sessions[i].session_token)

\* C12: a cache entry is written for a session token only after the row with
\* that token has been committed, so every cache entry has its session row.
C12_StoreThenCache ==
    /\ [](\A k \in CacheKeys : \E i \in Rows : sessions[i].session_token = k)
    /\ [][\A e \in cache' \ cache :
             \E i \in Rows : sessions[i].session_token = e.key]_vars

\* a login has written the cache entry of the row it had committed
C12_Witness ==
    \E p \in Procs :
        /\ pc[p] = "idle"
        /\ resp[p].op = "login"
        /\ resp[p].kind = "ok"
        /\ resp[p].sess \in Rows
        /\ SessionToken(resp[p].sess) \in CacheKeys

(***************************************************************************)
(* create_user_session when the store or the cache fails.  An exception    *)
(* of db.commit() or redis.setex() leaves create_user_session, the route   *)
(* turns it into a 500 (routes/auth.py 45-49, 84-88) and get_db rolls the  *)
(* transaction back (core/database.py 40-42).                              *)
(***************************************************************************)
\* detail=f"Registration failed: {str(e)}", detail=f"Login failed: {str(e)}"
FailureDetail(op, e) ==
    IF op = "register"
    THEN (IF e = "commit" THEN "Registration failed: commit" ELSE "Registration failed: setex")
    ELSE (IF e = "commit" THEN "Login failed: commit" ELSE "Login failed: setex")

RollbackKeepsEvictions(l) ==
    [i \in Rows |-> IF i \in Range(OldestSessions(l.snap))
                    THEN [sessions[i] EXCEPT !.is_active = FALSE]
                    ELSE sessions[i]]

\* database.py 40-42: session.rollback() drops the pending is_active = False
\* of lines 104-105 and the row added at line 131
Rollback(l) == sessions

\* line 132 raises
CreateSessionCommitFails(p) ==
    /\ pc[p] = "cs_commit"
    /\ sessions' = Rollback(loc[p])
    /\ Return(p, loc[p], "ServerError", 500, FailureDetail(loc[p].op, "commit"))
    /\ UNCHANGED <<users, cache, clock, nticks, nreq>>

\* lines 135-140 raise: the commit of line 132 has been done
CreateSessionCacheFails(p) ==
    /\ pc[p] = "cs_cache"
    /\ Return(p, loc[p], "ServerError", 500, FailureDetail(loc[p].op, "setex"))
    /\ UNCHANGED <<users, sessions, cache, clock, nticks, nreq>>

\* logins of alice, one at a time, with a store and a cache that may fail
FaultScenario ==
    [regs |-> {}, passwords |-> {Alice.password}, remember |-> BOOLEAN,
     rows |-> MaxRowsFault, ticks |-> {1}, reqs |-> 0]

NextFault ==
    \/ Tick(FaultScenario.ticks)
    \/ LoginStep(1, FaultScenario)
    \/ CreateSessionCommitFails(1)
    \/ CreateSessionCacheFails(1)
    \/ VerifySessionStep(1, FaultScenario)

SpecFault == InitRegistered /\ [][NextFault]_vars

\* C13: when the cache write of create_user_session fails after the commit,
\* the caller still gets the token pair and the session stays active.
C13_CacheFailureKeepsLogin ==
    [][\A p \in Procs :
          (/\ pc[p] = "cs_cache"
           /\ pc'[p] = "idle"
           /\ SessionToken(loc[p].sess) \notin {e.key : e \in cache'})
          => /\ resp'[p].kind = "ok"
             /\ IsJwt(resp'[p].access)
             /\ IsJwt(resp'[p].refresh)
             /\ sessions'[loc[p].sess].is_active]_vars

\* C14: when the commit of create_user_session fails no session row is added,
\* no session is deactivated, no cache entry is written and no token is
\* returned.
C14_CommitFailureAborts ==
    [][\A p \in Procs :
          (pc[p] = "cs_commit" /\ pc'[p] = "idle")
          => /\ sessions' = sessions
             /\ cache' = cache
             /\ resp'[p].kind # "ok"
             /\ ~IsJwt(resp'[p].access)
             /\ ~IsJwt(resp'[p].refresh)]_vars

\* the commit of a login that had decided to evict a session has failed
C14_Witness ==
    /\ pc[1] = "idle"
    /\ resp[1].op = "login"
    /\ resp[1].detail = FailureDetail("login", "commit")
    /\ ActiveCount(resp[1].user) >= MAX_SESSIONS_PER_USER
    /\ \A i \in Rows : sessions[i].session_token \in CacheKeys

(***************************************************************************)
(* The bearer check of the protected routes (utils/dependencies.py) and    *)
(* DELETE /users/account (routes/users.py).                                *)
(***************************************************************************)
\* the access token create_user_session returned with session row i: lines
\* 115 and 120 add the same expires_delta to the same instant
AccessTokenOf(i) ==
    [sub |-> users[sessions[i].user_id].username, user_id |-> sessions[i].user_id,
     type |-> "access", exp |-> sessions[i].expires_at]

\* what a client can put after "Bearer "
BearerTokens == ClientTokens \cup {AccessTokenOf(i) : i \in Rows}

GetCurrentUserChecksSession(tok) ==
    IF ~verify_token(tok, "access", clock)
    THEN [kind |-> "InvalidToken", status |-> 401, user |-> 0]
    ELSE IF Cardinality(UsersByName(tok.sub)) # 1
    THEN [kind |-> "InvalidToken", status |-> 401, user |-> 0]
    ELSE LET user == CHOOSE u \in UsersByName(tok.sub) : TRUE
         IN  IF ~users[user].is_active \/ ActiveRows(user) = {}
             THEN [kind |-> "UserInactive", status |-> 401, user |-> user]
             ELSE [kind |-> "ok", status |-> 200, user |-> user]

\* get_current_user, lines 33-67: the token check, then the user row
GetCurrentUserResult(tok) ==
    IF ~verify_token(tok, "access", clock)
    THEN [kind |-> "InvalidToken", status |-> 401, user |-> 0]
    ELSE IF Cardinality(UsersByName(tok.sub)) # 1
    THEN [kind |-> "InvalidToken", status |-> 401, user |-> 0]
    ELSE LET user == CHOOSE u \in UsersByName(tok.sub) : TRUE
         IN  IF ~users[user].is_active
             THEN [kind |-> "UserInactive", status |-> 401, user |-> user]
             ELSE [kind |-> "ok", status |-> 200, user |-> user]

\* GET /auth/verify: get_current_user and nothing else
VerifyRoute(p, tok, sc) ==
    /\ Begin(p, sc)
    /\ LET l == [NoLoc EXCEPT !.op = "verify", !.arg = tok]
           r == GetCurrentUserResult(tok)
       IN  Return(p, [l EXCEPT !.user = r.user], r.kind, r.status, "")
    /\ UNCHANGED <<users, sessions, cache, clock, nticks>>

\* DELETE /users/account: the dependency get_current_user
DeleteAccountAuth(p, tok, sc) ==
    /\ Begin(p, sc)
    /\ LET l == [NoLoc EXCEPT !.op = "delete_account", !.arg = tok]
           r == GetCurrentUserResult(tok)
       IN  IF r.kind # "ok"
           THEN Return(p, [l EXCEPT !.user = r.user], r.kind, r.status, "")
           ELSE Continue(p, [l EXCEPT !.user = r.user], "da_read")
    /\ UNCHANGED <<users, sessions, cache, clock, nticks>>

\* users.py line 95, logout_all_sessions lines 222-227
DeleteAccountRead(p) ==
    /\ pc[p] = "da_read"
    /\ Continue(p, [loc[p] EXCEPT !.snap = SortDesc(ActiveRows(loc[p].user))], "da_update")
    /\ UNCHANGED <<users, sessions, cache, clock, nticks, nreq>>

\* logout_all_sessions lines 229-235
DeleteAccountUpdate(p) ==
    /\ pc[p] = "da_update"
    /\ sessions' = DeactivateAll(loc[p].user)
    /\ Continue(p, loc[p], "da_cache")
    /\ UNCHANGED <<users, cache, clock, nticks, nreq>>

\* logout_all_sessions lines 237-242
DeleteAccountCache(p) ==
    /\ pc[p] = "da_cache"
    /\ cache' = CacheDelete({sessions[i].session_token : i \in Range(loc[p].snap)})
    /\ Continue(p, loc[p], "da_commit")
    /\ UNCHANGED <<users, sessions, clock, nticks, nreq>>

\* users.py lines 97-101
DeleteAccountCommit(p) ==
    /\ pc[p] = "da_commit"
    /\ users' = [users EXCEPT ![loc[p].user].is_active = FALSE]
    /\ Return(p, loc[p], "ok", 200, "Account deactivated successfully")
    /\ UNCHANGED <<sessions, cache, clock, nticks, nreq>>

DeleteAccountStep(p, sc) ==
    \/ \E tok \in BearerTokens : DeleteAccountAuth(p, tok, sc)
    \/ DeleteAccountRead(p)
    \/ DeleteAccountUpdate(p)
    \/ DeleteAccountCache(p)
    \/ DeleteAccountCommit(p)

VerifyRouteStep(p, sc) == \E tok \in BearerTokens : VerifyRoute(p, tok, sc)

\* logins, refreshes, logout-all, account deletion and bearer checks of
\* NumProcs clients interleave
AcctScenario ==
    [regs |-> {}, passwords |-> {Alice.password}, remember |-> BOOLEAN,
     rows |-> MaxRowsAcct, ticks |-> {AccessDelta + 1}, reqs |-> MaxReqs]

NextAcct ==
    \/ Tick(AcctScenario.ticks)
    \/ \E p \in Procs :
          \/ LoginStep(p, AcctScenario)
          \/ RefreshStep(p, AcctScenario)
          \/ LogoutAllStep(p, AcctScenario)
          \/ DeleteAccountStep(p, AcctScenario)
          \/ VerifyRouteStep(p, AcctScenario)

SpecAcct == InitRegistered /\ [][NextAcct]_vars

\* C16: a user whose is_active is false has no active session, whatever the
\* interleaving of logins, refreshes and account deletions.
C16_InactiveUserHasNoSession ==
    \A u \in UserIds : ~users[u].is_active => ActiveRows(u) = {}

\* C17: the access token returned with a session passes the bearer check and
\* yields the user of the login at every clock value before issue +
\* expires_in (the expires_at of the session row), and fails it at every clock
\* value after.
C17_AccessTokenLifetime ==
    \A i \in Rows :
        /\ clock < sessions[i].expires_at
              => /\ GetCurrentUserResult(AccessTokenOf(i)).kind = "ok"
                 /\ GetCurrentUserResult(AccessTokenOf(i)).user = sessions[i].user_id
        /\ clock > sessions[i].expires_at
              => GetCurrentUserResult(AccessTokenOf(i)).kind = "InvalidToken"

\* C18: the outcome of the bearer check depends on the token and the clock
\* only: a step that leaves the clock alone leaves the outcome of every token
\* as it was.
C18_BearerCheckIgnoresStore ==
    [][clock' = clock
         => \A tok \in BearerTokens : GetCurrentUserResult(tok)' = GetCurrentUserResult(tok)]_vars

\* C19: a bearer check with an unexpired access token of an active user
\* succeeds and yields that user, whether or not the user's sessions have
\* been deactivated and their cache entries deleted.
C19_LogoutLeavesAccessToken ==
    [][\A p \in Procs, tok \in BearerTokens :
          (/\ pc[p] = "idle"
           /\ nreq'[p] # nreq[p]
           /\ resp'[p].op = "verify"
           /\ resp'[p].arg = tok
           /\ verify_token(tok, "access", clock)
           /\ \E u \in UsersByName(tok.sub) : users[u].is_active)
          => /\ resp'[p].kind = "ok"
             /\ resp'[p].user = tok.user_id
             /\ users[resp'[p].user].username = tok.sub]_vars

\* after a logout_all_sessions has left the user without active session and
\* without cache entry, a bearer check with the access token of one of those
\* sessions has succeeded
C19_Witness ==
    \E p, q \in Procs :
        /\ pc[p] = "idle"
        /\ resp[p].op = "verify"
        /\ resp[p].kind = "ok"
        /\ resp[q].op = "logout_all"
        /\ resp[q].user = resp[p].user
        /\ ActiveRows(resp[p].user) = {}
        /\ cache = {}
        /\ \E i \in Rows : resp[p].arg = AccessTokenOf(i) /\ ~sessions[i].is_active
        /\ \A r \in Procs : pc[r] = "idle"

\* a step of the verify_session(tok) call of client p
VerifySessionCall(p, tok) ==
    \/ /\ pc[p] = "idle"
       /\ \/ pc'[p] = "vs_user" /\ loc'[p].arg = tok
          \/ /\ pc'[p] = "idle"
             /\ nreq'[p] # nreq[p]
             /\ resp'[p].op = "verify_session"
             /\ resp'[p].arg = tok
    \/ pc[p] \in {"vs_user", "vs_commit"} /\ pc'[p] # pc[p] /\ loc[p].arg = tok

\* C15: on a cache miss verify_session returns no user at once and changes
\* nothing, whatever the store holds; on a hit it returns the active user the
\* entry names, and the only thing a call changes is last_activity of the row
\* with its session token.
C15_CacheIsAuthoritative ==
    [][\A p \in Procs, tok \in ClientSessionTokens :
          VerifySessionCall(p, tok)
          => /\ (pc[p] = "idle" /\ CacheGet(tok) = {})
                   => /\ pc'[p] = "idle"
                      /\ resp'[p].kind = "NoSession"
                      /\ sessions' = sessions
             /\ (pc'[p] = "idle" /\ resp'[p].kind = "ok")
                   => /\ users[resp'[p].user].username = loc[p].name
                      /\ users[resp'[p].user].is_active
             /\ users' = users
             /\ cache' = cache
             /\ \A i \in Rows :
                   /\ sessions'[i].session_token # tok => sessions'[i] = sessions[i]
                   /\ sessions'[i] = [sessions[i] EXCEPT
                                         !.last_activity = sessions'[i].last_activity]
             /\ Len(sessions') = Len(sessions)]_vars

\* verify_session has returned no user for the token of a session that is
\* active and unexpired in the store: its cache entry is not written yet
C15_Witness ==
    \E p \in Procs :
        /\ pc[p] = "idle"
        /\ resp[p].op = "verify_session"
        /\ resp[p].kind = "NoSession"
        /\ resp[p].arg \notin CacheKeys
        /\ \E i \in Rows :
              /\ sessions[i].session_token = resp[p].arg
              /\ sessions[i].is_active
              /\ sessions[i].expires_at > clock

(***************************************************************************)
(* Registrations that collide on the username or on the email.             *)
(***************************************************************************)
RegConflictInputs ==
    RegInputs \cup
    {[username |-> "alice", email |-> "alice2@example.com", password |-> "Passw0rdA"],
     [username |-> "bob", email |-> "alice@example.com", password |-> "Passw0rdB"]}

\* registrations and logins, one request at a time
RegScenario ==
    [regs |-> RegConflictInputs, passwords |-> Passwords, remember |-> {FALSE},
     rows |-> MaxRowsReg, ticks |-> {1}, reqs |-> 0]

NextReg ==
    \/ Tick(RegScenario.ticks)
    \/ RegisterStep(1, RegScenario)
    \/ LoginStep(1, RegScenario)

SpecReg == Init /\ [][NextReg]_vars

\* the step in which POST /register with `input` starts
RegisterBegins(input) ==
    /\ pc[1] = "idle"
    /\ \/ pc'[1] = "rg_email" /\ loc'[1].arg = input
       \/ /\ pc'[1] = "idle"
          /\ resp'[1] # resp[1]
          /\ resp'[1].op = "register"
          /\ resp'[1].arg = input

\* C20: a registration whose username is taken fails with DuplicateUsername,
\* one whose email is taken (and whose username is free) fails with
\* DuplicateEmail, and a registration that fails adds no user row, no session
\* row and no cache entry.
C20_RegistrationConflicts ==
    [][/\ \A input \in RegConflictInputs :
             RegisterBegins(input)
             => IF UsersByName(input.username) # {}
                THEN /\ pc'[1] = "idle"
                     /\ resp'[1].kind = "DuplicateUsername"
                     /\ resp'[1].status = 400
                ELSE pc'[1] = "rg_email"
       /\ (pc[1] = "rg_email" /\ pc'[1] # "rg_email")
             => IF UsersByEmail(loc[1].arg.email) # {}
                THEN /\ pc'[1] = "idle"
                     /\ resp'[1].kind = "DuplicateEmail"
                     /\ resp'[1].status = 400
                ELSE pc'[1] = "rg_insert"
       /\ (/\ pc[1] \in {"idle", "rg_email", "rg_insert", "rg_get"}
           /\ pc'[1] = "idle"
           /\ resp'[1].op = "register"
           /\ resp'[1].kind # "ok")
             => /\ users' = users
                /\ sessions' = sessions
                /\ cache' = cache
                /\ pc[1] \in {"idle", "rg_email"}]_vars

\* alice is registered and has her session; a registration with a new
\* username and her email has failed with DuplicateEmail
C20_Witness ==
    /\ pc[1] = "idle"
    /\ resp[1].op = "register"
    /\ resp[1].kind = "DuplicateEmail"
    /\ UsersByName(resp[1].arg.username) = {}
    /\ UsersByEmail(resp[1].arg.email) # {}
    /\ Len(users) = 1
    /\ Len(sessions) = 1
    /\ cache # {}

(***************************************************************************)
(* Registrations of NumProcs clients that interleave.                      *)
(***************************************************************************)
RegRaceScenario ==
    [regs |-> RegConflictInputs, passwords |-> Passwords, remember |-> {FALSE},
     rows |-> MaxRowsRegRace, ticks |-> {1}, reqs |-> MaxReqs]

NextRegRace ==
    \E p \in Procs :
        \/ RegisterStep(p, RegRaceScenario)
        \/ LoginStep(p, RegRaceScenario)

SpecRegRace == Init /\ [][NextRegRace]_vars

LoginBegins(p, username, password) ==
    /\ pc[p] = "idle"
    /\ \/ /\ pc'[p] = "au_commit"
          /\ loc'[p].arg = [username |-> username, password |-> password]
       \/ /\ pc'[p] = "idle"
          /\ resp'[p] # resp[p]
          /\ resp'[p].op = "login"
          /\ resp'[p].arg = [username |-> username, password |-> password]

\* what the caller of a failed login sees
InvalidCredentialsResponse ==
    [NoResp EXCEPT !.op = "login", !.kind = "InvalidCredentials", !.status = 401,
                   !.detail = "Invalid username or password"]

\* C22: a login with an unknown username and a login with a wrong password
\* get the same response, field by field, and change no user row, no session
\* row and no cache entry.
C22_LoginFailuresIndistinguishable ==
    [][\A username \in UserNames, password \in Passwords :
          (/\ LoginBegins(1, username, password)
           /\ \/ UsersByName(username) = {}
              \/ \E u \in UsersByName(username) :
                    ~verify_password(password, users[u].hashed_password))
          => /\ pc'[1] = "idle"
             /\ [resp'[1] EXCEPT !.arg = GarbageToken] = InvalidCredentialsResponse
             /\ users' = users
             /\ sessions' = sessions
             /\ cache' = cache]_vars

\* alice is registered, bob is not: a login of alice with bob's password has
\* failed
C22_Witness ==
    /\ pc[1] = "idle"
    /\ resp[1].op = "login"
    /\ resp[1].kind = "InvalidCredentials"
    /\ UsersByName(resp[1].arg.username) # {}
    /\ UsersByName("bob") = {}
    /\ \A u \in UserIds : users[u].last_login = -1

\* C23: a login with the correct password of a user whose is_active is false
\* fails with AccountInactive at once: no session row, no cache entry, no
\* eviction, and last_login stays as it was.
C23_InactiveUserCannotLogin ==
    [][\A p \in Procs, username \in UserNames, password \in Passwords :
          (/\ LoginBegins(p, username, password)
           /\ \E u \in UsersByName(username) :
                 /\ verify_password(password, users[u].hashed_password)
                 /\ ~users[u].is_active)
          => /\ pc'[p] = "idle"
             /\ resp'[p].kind = "AccountInactive"
             /\ ~IsJwt(resp'[p].access)
             /\ ~IsJwt(resp'[p].refresh)
             /\ users' = users
             /\ sessions' = sessions
             /\ cache' = cache]_vars

\* alice's account has been deactivated and her login has been refused
C23_Witness ==
    \E p \in Procs :
        /\ pc[p] = "idle"
        /\ resp[p].op = "login"
        /\ resp[p].kind = "AccountInactive"
        /\ resp[p].arg.password = Alice.password
        /\ \E u \in UsersByName(resp[p].arg.username) : ~users[u].is_active

\* the lifetime the settings give a session, in seconds
Lifetime(remember_me) ==
    IF remember_me
    THEN REFRESH_TOKEN_EXPIRE_DAYS * 24 * 60 * 60
    ELSE ACCESS_TOKEN_EXPIRE_MINUTES * 60

\* C24: create_user_session uses one lifetime, REFRESH_TOKEN_EXPIRE_DAYS days
\* with remember_me and ACCESS_TOKEN_EXPIRE_MINUTES minutes without: the row's
\* expires_at is the time of creation plus the lifetime, the TTL of the cache
\* entry is the lifetime and the expires_in returned is the lifetime.
C24_OneLifetime ==
    [][\A p \in Procs :
          /\ (pc[p] = "cs_commit" /\ pc'[p] = "cs_cache")
                => /\ Len(sessions') = Len(sessions) + 1
                   /\ sessions'[Len(sessions')].expires_at
                         = loc[p].now + Lifetime(loc[p].remember)
          /\ (pc[p] = "cs_cache" /\ pc'[p] = "idle" /\ resp'[p].kind = "ok")
                => /\ resp'[p].expires_in = Lifetime(loc[p].remember)
                   /\ \E e \in cache' :
                         /\ e.key = sessions[loc[p].sess].session_token
                         /\ e.exp - clock = Lifetime(loc[p].remember)
                   /\ resp'[p].access.exp = loc[p].now + Lifetime(loc[p].remember)]_vars

\* a remember_me login has returned: row, cache entry and response carry the
\* long lifetime
C24_Witness ==
    /\ pc[1] = "idle"
    /\ resp[1].op = "login"
    /\ resp[1].kind = "ok"
    /\ resp[1].expires_in = Lifetime(TRUE)
    /\ sessions[resp[1].sess].expires_at >= Lifetime(TRUE)
    /\ \E e \in cache : e.key = SessionToken(resp[1].sess) /\ e.exp >= Lifetime(TRUE)

\* a step of a refresh_token call of client p
RefreshCall(p) ==
    \/ pc[p] = "idle" /\ pc'[p] = "rf_user"
    \/ pc[p] = "idle" /\ pc'[p] = "idle" /\ resp'[p] # resp[p] /\ resp'[p].op = "refresh"
    \/ pc[p] \in {"rf_user", "rf_commit"} /\ pc'[p] # pc[p]

\* C25: a refresh that succeeds writes refresh_token and last_activity of the
\* session it matched and nothing else: the other columns of that row, the
\* other rows, the users and every cache entry with its expiry stay as they
\* were.
C25_RefreshFrame ==
    [][\A p \in Procs :
          RefreshCall(p)
          => /\ users' = users
             /\ cache' = cache
             /\ Len(sessions') = Len(sessions)
             /\ \A i \in Rows :
                   IF pc[p] = "rf_commit" /\ i = loc[p].sess
                   THEN /\ resp'[p].kind = "ok"
                        /\ sessions'[i] = [sessions[i] EXCEPT
                                              !.refresh_token = resp'[p].refresh,
                                              !.last_activity = loc[p].now]
                   ELSE sessions'[i] = sessions[i]]_vars

\* a refresh at clock 1 has rotated the token of the session created at 0:
\* the row keeps its expires_at and the cache entry its expiry
C25_Witness ==
    \E p \in Procs :
        /\ RefreshSucceeded(p)
        /\ sessions[resp[p].sess].refresh_token = resp[p].refresh
        /\ sessions[resp[p].sess].refresh_token # resp[p].arg
        /\ sessions[resp[p].sess].last_activity > sessions[resp[p].sess].created_at
        /\ sessions[resp[p].sess].expires_at
              = sessions[resp[p].sess].created_at + AccessDelta
        /\ sessions[resp[p].sess].is_active
        /\ \E e \in cache :
              /\ e.key = sessions[resp[p].sess].session_token
              /\ e.exp = sessions[resp[p].sess].expires_at

(***************************************************************************)
(* POST /auth/logout (routes/auth.py 112-137): the bearer check, then      *)
(* logout_user with the string that follows "Bearer ".                     *)
(***************************************************************************)
\* Depends(get_current_user)
LogoutRouteAuth(p, tok, sc) ==
    /\ Begin(p, sc)
    /\ LET l == [NoLoc EXCEPT !.op = "logout_route", !.arg = tok]
           r == GetCurrentUserResult(tok)
       IN  IF r.kind # "ok"
           THEN Return(p, [l EXCEPT !.user = r.user], r.kind, r.status, "")
           ELSE Continue(p, [l EXCEPT !.user = r.user], "lr_update")
    /\ UNCHANGED <<users, sessions, cache, clock, nticks>>

\* lines 123-126, logout_user lines 204-210: session_token is the bearer token
LogoutRouteUpdate(p) ==
    /\ pc[p] = "lr_update"
    /\ sessions' = DeactivateByToken(loc[p].arg)
    /\ Continue(p, loc[p], "lr_cache")
    /\ UNCHANGED <<users, cache, clock, nticks, nreq>>

\* logout_user lines 212-216, and the LogoutResponse of lines 128-131
LogoutRouteCache(p) ==
    /\ pc[p] = "lr_cache"
    /\ cache' = CacheDelete({loc[p].arg})
    /\ Return(p, loc[p], "ok", 200, "Successfully logged out")
    /\ UNCHANGED <<users, sessions, clock, nticks, nreq>>

LogoutRouteStep(p, sc) ==
    \/ \E tok \in BearerTokens : LogoutRouteAuth(p, tok, sc)
    \/ LogoutRouteUpdate(p)
    \/ LogoutRouteCache(p)

\* refreshes, logouts, account deletion and bearer checks of NumProcs clients,
\* with a clock that passes the end of a session or of a refresh token
TokenScenario ==
    [regs |-> {}, passwords |-> {Alice.password}, remember |-> {FALSE},
     rows |-> 1, ticks |-> {AccessDelta + 1, RefreshDelta + 1}, reqs |-> MaxReqs]

NextToken ==
    \/ Tick(TokenScenario.ticks)
    \/ \E p \in Procs :
          \/ RefreshStep(p, TokenScenario)
          \/ LogoutRouteStep(p, TokenScenario)
          \/ DeleteAccountStep(p, TokenScenario)
          \/ VerifyRouteStep(p, TokenScenario)

SpecToken == InitRegistered /\ [][NextToken]_vars

(***************************************************************************)
(* Claims about the checks of refresh and of the bearer dependency.        *)
(***************************************************************************)
\* p's call refresh(tok) starts: it goes on to the owning user or returns
RefreshBegins(p, tok) ==
    /\ pc[p] = "idle"
    /\ \/ pc'[p] = "rf_user" /\ loc'[p].arg = tok
       \/ /\ pc'[p] = "idle"
          /\ nreq'[p] # nreq[p]
          /\ resp'[p].op = "refresh"
          /\ resp'[p].arg = tok

\* a step of p's refresh that returns an error
RefreshFails(p) == RefreshCall(p) /\ pc'[p] = "idle" /\ resp'[p].kind # "ok"

\* C26: refresh checks the token, then the active session that stores it,
\* then the owning user: InvalidToken for an invalid token whatever the store
\* holds, SessionNotFound when no active session stores it, UserInactive when
\* the owner is missing or deactivated; a failure issues no token and leaves
\* the session rows and the cache as they were.
C26_RefreshCheckOrder ==
    [][\A p \in Procs :
          /\ \A tok \in ClientTokens :
                RefreshBegins(p, tok)
                => IF ~verify_token(tok, "refresh", clock)
                   THEN pc'[p] = "idle" /\ resp'[p].kind = "InvalidToken"
                   ELSE IF SessionsByRefreshToken(tok) = {}
                   THEN pc'[p] = "idle" /\ resp'[p].kind = "SessionNotFound"
                   ELSE Cardinality(SessionsByRefreshToken(tok)) = 1
                           => pc'[p] = "rf_user"
          /\ (pc[p] = "rf_user" /\ pc'[p] # pc[p])
                => LET uid == sessions[loc[p].sess].user_id
                   IN  IF uid \notin UserIds \/ ~users[uid].is_active
                       THEN pc'[p] = "idle" /\ resp'[p].kind = "UserInactive"
                       ELSE pc'[p] = "rf_commit"
          /\ RefreshFails(p)
                => /\ ~IsJwt(resp'[p].access)
                   /\ ~IsJwt(resp'[p].refresh)
                   /\ sessions' = sessions
                   /\ cache' = cache
                   /\ users' = users]_vars

\* one refresh was refused for its expired token, which a session row stores,
\* and another for its owner, deactivated after the session had been found
C26_Witness ==
    \E p, q \in Procs :
       /\ resp[p].op = "refresh"
       /\ resp[p].kind = "InvalidToken"
       /\ \E i \in Rows : sessions[i].refresh_token = resp[p].arg
       /\ resp[q].op = "refresh"
       /\ resp[q].kind = "UserInactive"
       /\ ~users[sessions[resp[q].sess].user_id].is_active

\* p's call of GET /auth/verify with tok after "Bearer "
VerifyRouteBegins(p, tok) ==
    /\ pc[p] = "idle"
    /\ pc'[p] = "idle"
    /\ nreq'[p] # nreq[p]
    /\ resp'[p].op = "verify"
    /\ resp'[p].arg = tok

\* C27: refresh called with a valid, unexpired access token fails with
\* InvalidToken and changes no state; the bearer check called with a valid,
\* unexpired refresh token fails with InvalidToken.
C27_TokenKindsNotInterchangeable ==
    [][\A p \in Procs : \A tok \in BearerTokens :
          /\ (RefreshBegins(p, tok) /\ verify_token(tok, "access", clock))
                => /\ pc'[p] = "idle"
                   /\ resp'[p].kind = "InvalidToken"
                   /\ users' = users
                   /\ sessions' = sessions
                   /\ cache' = cache
          /\ (VerifyRouteBegins(p, tok) /\ verify_token(tok, "refresh", clock))
                => resp'[p].kind = "InvalidToken"]_vars

C27_Witness ==
    \E p, q \in Procs :
       /\ resp[p].op = "refresh"
       /\ resp[p].kind = "InvalidToken"
       /\ verify_token(resp[p].arg, "access", clock)
       /\ resp[q].op = "verify"
       /\ resp[q].kind = "InvalidToken"
       /\ verify_token(resp[q].arg, "refresh", clock)

\* C28: when POST /auth/logout, called with the access token that a login
\* returned, answers 200, that login's session row is inactive, its cache
\* entry is gone and refresh with its refresh token fails.
C28_LogoutRouteDeactivates ==
    [][\A p \in Procs :
          (pc[p] = "lr_cache" /\ pc'[p] = "idle" /\ resp'[p].kind = "ok")
          => \A i \in Rows :
                AccessTokenOf(i) = resp'[p].arg
                => /\ ~sessions'[i].is_active
                   /\ \A e \in cache' : e.key # sessions'[i].session_token
                   /\ (RefreshResult(sessions[i].refresh_token) # "ok")']_vars

\* C29: once a session's expires_at has passed, refresh with the refresh
\* token the session stores does not succeed.
C29_NoRefreshAfterSessionExpiry ==
    \A i \in Rows :
       clock > sessions[i].expires_at
       => RefreshResult(sessions[i].refresh_token) # "ok"

\* C30: once a logoutAll(u) and a createSession(u) that ran concurrently have
\* both completed, no inactive session of u has a cache entry.  (The store
\* holds no more rows than MAX_SESSIONS_PER_USER and no client called logout,
\* so every inactive session was deactivated by logoutAll.)
C30_LogoutAllCacheExact ==
    ( /\ \A p \in Procs : pc[p] = "idle"
      /\ Len(sessions) <= MAX_SESSIONS_PER_USER
      /\ \A p \in Procs : resp[p].op # "logout"
      /\ \E p, q \in Procs :
            /\ resp[p].op = "logout_all" /\ resp[p].kind = "ok"
            /\ resp[q].op = "login" /\ resp[q].kind = "ok"
            /\ sessions[resp[q].sess].user_id = resp[p].user )
    => \A i \in Rows :
          ~sessions[i].is_active => sessions[i].session_token \notin CacheKeys

\* C31: every authentication failure (login refused for its credentials or
\* for an inactive account, refresh refused, bearer check refused) answers
\* status 401, and every registration conflict answers status 400.
C31_FailureStatusClasses ==
    \A p \in Procs :
       /\ resp[p].kind \in {"InvalidCredentials", "AccountInactive", "InvalidToken",
                            "SessionNotFound", "UserInactive"}
             => resp[p].status = 401
       /\ resp[p].kind \in {"DuplicateUsername", "DuplicateEmail"}
             => resp[p].status = 400

(***************************************************************************)
(* Two users, each with a session: requests that act on one of them.       *)
(***************************************************************************)
Bob == CHOOSE r \in RegInputs : r.username = "bob"

BobData == [sub |-> Bob.username, user_id |-> 2]

\* alice and bob have registered at clock 0
InitTwoUsers ==
    /\ users = <<NewUser(Alice), NewUser(Bob)>>
    /\ sessions = <<NewSession([NoLoc EXCEPT !.user = 1,
                                             !.refresh = create_refresh_token(AliceData, 0)],
                               1, 0),
                    NewSession([NoLoc EXCEPT !.user = 2,
                                             !.refresh = create_refresh_token(BobData, 0)],
                               2, 0)>>
    /\ cache = {[key |-> SessionToken(1), value |-> Alice.username,
                 exp |-> ExpiresDelta(FALSE)],
                [key |-> SessionToken(2), value |-> Bob.username,
                 exp |-> ExpiresDelta(FALSE)]}
    /\ clock = 0
    /\ nticks = 0
    /\ pc = [p \in Procs |-> "idle"]
    /\ loc = [p \in Procs |-> NoLoc]
    /\ resp = [p \in Procs |-> NoResp]
    /\ nreq = [p \in Procs |-> 0]

IsoScenario ==
    [regs |-> {}, passwords |-> Passwords, remember |-> {FALSE},
     rows |-> MaxRowsIso, ticks |-> {1}, reqs |-> MaxReqs]

NextIso ==
    \/ Tick(IsoScenario.ticks)
    \/ \E p \in Procs :
          \/ LoginStep(p, IsoScenario)
          \/ RefreshStep(p, IsoScenario)
          \/ LogoutStep(p, IsoScenario)
          \/ LogoutAllStep(p, IsoScenario)

SpecIso == InitTwoUsers /\ [][NextIso]_vars

\* the step is a step of p's request
StepOf(p) == pc'[p] # pc[p] \/ nreq'[p] # nreq[p]

\* the owner of the session with session token tok, 0 when there is none
OwnerOfToken(tok) ==
    IF \E i \in Rows : sessions[i].session_token = tok
    THEN sessions[CHOOSE i \in Rows : sessions[i].session_token = tok].user_id
    ELSE 0

\* the user, or the owner of the session, that the step of p acts on
ActingUser(p) ==
    IF pc[p] \in {"au_commit", "cs_read", "cs_commit", "cs_cache", "la_update", "la_cache"}
    THEN loc[p].user
    ELSE IF pc[p] \in {"rf_user", "rf_commit"} THEN sessions[loc[p].sess].user_id
    ELSE IF pc[p] = "lo_cache" THEN OwnerOfToken(loc[p].arg)
    ELSE IF pc'[p] = "lo_cache" THEN OwnerOfToken(loc'[p].arg)
    ELSE IF pc'[p] = "la_update" THEN loc'[p].user
    ELSE 0

\* C32: a createSession that found fewer than MAX_SESSIONS_PER_USER active
\* sessions deactivates no session; and a step of createSession, refresh,
\* logout or logoutAll acting on user u leaves the active flag, refresh token,
\* expiry and cache entry of every session of another user as they were.
C32_PerUserIsolation ==
    [][\A p \in Procs :
          StepOf(p)
          => /\ (pc[p] = "cs_commit" /\ Len(loc[p].snap) < MAX_SESSIONS_PER_USER)
                   => \A i \in Rows : sessions'[i].is_active = sessions[i].is_active
             /\ \A i \in Rows :
                   sessions[i].user_id # ActingUser(p)
                   => /\ sessions'[i].is_active = sessions[i].is_active
                      /\ sessions'[i].refresh_token = sessions[i].refresh_token
                      /\ sessions'[i].expires_at = sessions[i].expires_at
                      /\ sessions'[i].user_id = sessions[i].user_id
                      /\ {e \in cache' : e.key = sessions[i].session_token}
                            = {e \in cache : e.key = sessions[i].session_token}]_vars

\* alice has logged in below the cap, refreshed and logged out everywhere
\* while bob's session is as it was created
C32_Witness ==
    /\ \E p, q, r \in Procs :
          /\ resp[p].op = "login" /\ resp[p].kind = "ok" /\ resp[p].user = 1
          /\ resp[q].op = "logout_all" /\ resp[q].kind = "ok" /\ resp[q].user = 1
          /\ resp[r].op = "refresh" /\ resp[r].kind = "ok"
          /\ sessions[resp[r].sess].user_id = 1
    /\ ActiveRows(1) = {}
    /\ sessions[2].user_id = 2
    /\ sessions[2].is_active
    /\ sessions[2].refresh_token = create_refresh_token(BobData, 0)
    /\ SessionToken(2) \in CacheKeys

(***************************************************************************)
(* POST /users/change-password (routes/users.py 50-82).                    *)
(***************************************************************************)
\* a new_password that passes the schema
NewPassword == "Passw0rdN"

\* Depends(get_current_user), then lines 60-65: the current password is
\* compared with the hash of the user row the dependency loaded
ChangePasswordAuth(p, tok, current_password, new_password, sc) ==
    /\ Begin(p, sc)
    /\ LET l == [NoLoc EXCEPT !.op = "change_password",
                              !.arg = [token |-> tok,
                                       current_password |-> current_password,
                                       new_password |-> new_password]]
           r == GetCurrentUserResult(tok)
       IN  IF r.kind # "ok"
           THEN Return(p, [l EXCEPT !.user = r.user], r.kind, r.status, "")
           ELSE IF ~verify_password(current_password, users[r.user].hashed_password)
           THEN Return(p, [l EXCEPT !.user = r.user], "WrongPassword", 400,
                       "Current password is incorrect")
           ELSE Continue(p, [l EXCEPT !.user = r.user], "cp_commit")
    /\ UNCHANGED <<users, sessions, cache, clock, nticks>>

\* lines 67-69: the new hash is committed
ChangePasswordCommit(p) ==
    /\ pc[p] = "cp_commit"
    /\ users' = [users EXCEPT ![loc[p].user].hashed_password =
                                  get_password_hash(loc[p].arg.new_password)]
    /\ Continue(p, loc[p], "cp_read")
    /\ UNCHANGED <<sessions, cache, clock, nticks, nreq>>

\* line 72, logout_all_sessions lines 222-227
ChangePasswordRead(p) ==
    /\ pc[p] = "cp_read"
    /\ Continue(p, [loc[p] EXCEPT !.snap = SortDesc(ActiveRows(loc[p].user))], "cp_update")
    /\ UNCHANGED <<users, sessions, cache, clock, nticks, nreq>>

\* logout_all_sessions lines 229-235
ChangePasswordUpdate(p) ==
    /\ pc[p] = "cp_update"
    /\ sessions' = DeactivateAll(loc[p].user)
    /\ Continue(p, loc[p], "cp_cache")
    /\ UNCHANGED <<users, cache, clock, nticks, nreq>>

\* logout_all_sessions lines 237-242, and the answer of line 74
ChangePasswordCache(p) ==
    /\ pc[p] = "cp_cache"
    /\ cache' = CacheDelete({sessions[i].session_token : i \in Range(loc[p].snap)})
    /\ Return(p, loc[p], "ok", 200, "Password changed successfully. Please login again.")
    /\ UNCHANGED <<users, sessions, clock, nticks, nreq>>

ChangePasswordStep(p, sc) ==
    \/ \E tok \in BearerTokens, current_password \in sc.passwords :
          ChangePasswordAuth(p, tok, current_password, NewPassword, sc)
    \/ ChangePasswordCommit(p)
    \/ ChangePasswordRead(p)
    \/ ChangePasswordUpdate(p)
    \/ ChangePasswordCache(p)

\* one client: logins, refreshes and password changes that do not overlap
PwdScenario ==
    [regs |-> {}, passwords |-> {Alice.password, NewPassword}, remember |-> {FALSE},
     rows |-> MaxRowsPwd, ticks |-> {1}, reqs |-> 0]

NextPwd ==
    \/ Tick(PwdScenario.ticks)
    \/ LoginStep(1, PwdScenario)
    \/ RefreshStep(1, PwdScenario)
    \/ ChangePasswordStep(1, PwdScenario)

SpecPwd == InitRegistered /\ [][NextPwd]_vars

\* C33: when change_password has succeeded the user has no active session,
\* none of the user's sessions has a cache entry and refresh fails for every
\* refresh token the user's sessions store; when the current password is
\* wrong the call fails and leaves the users, the sessions and the cache as
\* they were.
C33_PasswordChangeRevokes ==
    /\ []((pc[1] = "idle" /\ resp[1].op = "change_password" /\ resp[1].kind = "ok")
          => /\ ActiveRows(resp[1].user) = {}
             /\ \A i \in Rows :
                   sessions[i].user_id = resp[1].user
                   => /\ sessions[i].session_token \notin CacheKeys
                      /\ RefreshResult(sessions[i].refresh_token) # "ok")
    /\ [][(pc[1] = "idle" /\ pc'[1] = "idle" /\ resp'[1].op = "change_password"
              /\ resp'[1].kind = "WrongPassword")
          => users' = users /\ sessions' = sessions /\ cache' = cache]_vars

(***************************************************************************)
(* Account deletion followed by every kind of request, one at a time.      *)
(***************************************************************************)
DelScenario ==
    [regs |-> {}, passwords |-> {Alice.password}, remember |-> {FALSE},
     rows |-> MaxRowsDel, ticks |-> {1}, reqs |-> 0]

NextDel ==
    \/ Tick(DelScenario.ticks)
    \/ LoginStep(1, DelScenario)
    \/ RefreshStep(1, DelScenario)
    \/ DeleteAccountStep(1, DelScenario)
    \/ VerifyRouteStep(1, DelScenario)
    \/ VerifySessionStep(1, DelScenario)

SpecDel == InitRegistered /\ [][NextDel]_vars

\* C34: once delete_account has completed the user is inactive and has no
\* active session; from then on refresh fails for every refresh token of the
\* user, the bearer check of every access token of the user answers 401,
\* verify_session returns no user for the user's session tokens and leaves
\* last_activity alone, and a login with the correct password fails.
C34_DeactivationIsEffective ==
    /\ [](\A u \in UserIds :
            (pc[1] = "idle" /\ ~users[u].is_active)
            => /\ ActiveRows(u) = {}
               /\ \A tok \in BearerTokens :
                     (IsJwt(tok) /\ tok.sub = users[u].username)
                     => /\ RefreshResult(tok) # "ok"
                        /\ GetCurrentUserResult(tok).status = 401
               /\ \A i \in Rows :
                     sessions[i].user_id = u
                     => ~VerifySessionFindsUser(sessions[i].session_token))
    /\ [][\A u \in UserIds :
            ~users[u].is_active
            => /\ ~users'[u].is_active
               /\ \A i \in Rows :
                     sessions[i].user_id = u
                     => /\ sessions'[i].last_activity = sessions[i].last_activity
                        /\ ~sessions'[i].is_active
               /\ (pc[1] = "idle" /\ StepOf(1) /\ pc'[1] = "idle"
                      /\ resp'[1].op \in {"login", "refresh", "verify_session"}
                      /\ (resp'[1].op = "login" => resp'[1].arg.username = users[u].username))
                     => resp'[1].kind # "ok"
               /\ (pc[1] = "idle" /\ StepOf(1) /\ pc'[1] # "idle")
                     => pc'[1] = "vs_user"
               /\ (pc[1] = "vs_user" /\ StepOf(1))
                     => pc'[1] = "idle" /\ resp'[1].kind = "NoSession"]_vars

\* alice's account is deleted; verify_session has found the cache entry that
\* an eviction left behind and has returned no session
C34_Witness ==
    /\ ~users[1].is_active
    /\ pc[1] = "idle"
    /\ resp[1].op = "verify_session"
    /\ resp[1].kind = "NoSession"
    /\ resp[1].arg \in CacheKeys
    /\ \E i \in Rows : AccessTokenOf(i).exp >= clock

\* C35: every cache entry is written with a positive, finite TTL, the
\* lifetime of its session, so it is gone when the clock has passed its
\* expiry; and it is gone no later than the session's lifetime after the
\* session's creation.
C35_CacheEntriesExpire ==
    /\ [](\A e \in cache : e.exp > clock)
    /\ [][\A e \in cache' \ cache : e.exp - clock' \in {Lifetime(TRUE), Lifetime(FALSE)}]_vars
    /\ [](\A p \in Procs :
            (resp[p].op \in {"login", "register"} /\ resp[p].kind = "ok")
            => \A e \in cache :
                  e.key = SessionToken(resp[p].sess)
                  => e.exp <= sessions[resp[p].sess].created_at + resp[p].expires_in)

====
